---- MODULE Spec2Model ----
(***************************************************************************)
(* Model of the feature-announcement popup of the Cadence documentation    *)
(* site: the NewFeaturePopup React component (two variants of the file     *)
(* exist in the repository: components/NewFeaturePopup/index.tsx, the      *)
(* "buttons" variant, and unnamed/part_007, the "click anywhere" variant), *)
(* the browser's localStorage, the clock, the pending setTimeout           *)
(* callbacks and the client-side router.                                   *)
(*                                                                         *)
(* Time is in milliseconds.  A timer never fires before it is due; the     *)
(* clock does not pass a pending timer (Advance stops at the earliest due  *)
(* time), and user clicks interleave freely with the timers that are due.  *)
(* Pages are loaded at the instants of a grid of LoadsPerDay instants a     *)
(* day, so that whole and fractional numbers of days elapse between loads. *)
(* Stored values are strings, modelled as sequences of one-character       *)
(* strings, so that now.toString() and parseInt() are real conversions.    *)
(*                                                                         *)
(* Spec is the site over several page loads with working storage.          *)
(* SpecBrowser starts from the storage a browser may hand to the page      *)
(* (refusing access, holding a foreign lastShown entry); SpecLive is one   *)
(* page load under the fairness of the event loop; SpecProps is one page   *)
(* load whose parent changes showDays; SpecWrappers is the wrapper         *)
(* GrafanaSetupPopup mounted several times on one page.                    *)
(*                                                                         *)
(* The releases page (components/CadenceReleases/index.tsx) is modelled by *)
(* its three functions applied to a release file: SpecReleases over files  *)
(* whose tags are versions, SpecTags over files with other tags as well.   *)
(* SpecScript is one run of scripts/fetch-releases.sh, command by command. *)
(***************************************************************************)
EXTENDS Integers, Sequences, FiniteSets

\* ------------------------------------------------------------------ bounds
MaxDays == 3        \* the clock stops after this many days
MaxMounts == 3      \* page loads in one behaviour
MaxPushes == 1      \* router pushes in one behaviour
LoadsPerDay == 2    \* pages are loaded at the instants k * (MsPerDay / LoadsPerDay)
MaxWrappers == 3    \* GrafanaSetupPopup instances on one page
MaxEffectRuns == 2  \* runs of the popup's effect in one mount
MaxReleases == 3    \* releases in a release file
MaxEntries == 2     \* releases in one response of the GitHub API

\* --------------------------------------------------------------- constants
MsPerDay == 86400000     \* 1000 * 60 * 60 * 24
ShowDelay == 2000        \* setTimeout(..., 2000)
AnimateDelay == 100      \* setTimeout(() => setIsAnimating(true), 100)
HideDelay == 400         \* setTimeout(() => setIsVisible(false), 400)
DefaultShowDays == 7     \* showDays = 7

MaxNow == MaxDays * MsPerDay

LoadStep == MsPerDay \div LoadsPerDay

\* the announcement the site shows (GrafanaSetupPopup) and the one an earlier
\* version of the site showed, whose entries a browser may still hold
FeatureIds == {"workflow_queries_formatted_data_2025"}
EarlierFeatureIds == {"grafana_helm_setup_2025_ultra_v2"}
StorageIds == FeatureIds \cup EarlierFeatureIds
ShowDaysValues == {1, 2}
Variants == {"index_tsx", "part_007"}

\* ----------------------------------------------------------------- strings
Digits == <<"0", "1", "2", "3", "4", "5", "6", "7", "8", "9">>

IsDigit(c) == \E i \in 1..10 : Digits[i] = c

DigitValue(c) == (CHOOSE i \in 1..10 : Digits[i] = c) - 1

\* localStorage.getItem returns null or a string
Null == [tag |-> "null", s |-> <<>>]

Str(s) == [tag |-> "string", s |-> s]

TrueString == Str(<<"t", "r", "u", "e">>)

\* Number.prototype.toString of an integer
RECURSIVE NatToString(_)
NatToString(n) ==
    IF n < 10 THEN <<Digits[n + 1]>>
    ELSE Append(NatToString(n \div 10), Digits[(n % 10) + 1])

toString(n) == IF n < 0 THEN <<"-">> \o NatToString(0 - n) ELSE NatToString(n)

\* value of the longest prefix of digits of s, read after the digits acc
RECURSIVE DigitPrefix(_, _)
DigitPrefix(s, acc) ==
    IF s = <<>> \/ ~IsDigit(Head(s)) THEN acc
    ELSE DigitPrefix(Tail(s), acc * 10 + DigitValue(Head(s)))

RECURSIVE TrimLeft(_)
TrimLeft(s) == IF s # <<>> /\ Head(s) = " " THEN TrimLeft(Tail(s)) ELSE s

NaN == [nan |-> TRUE, n |-> 0]

Num(n) == [nan |-> FALSE, n |-> n]

\* parseInt(string): leading white space, an optional sign, then the longest
\* run of digits; NaN when there is no digit
ParseInt(v) ==
    LET t == TrimLeft(v.s)
        neg == t # <<>> /\ Head(t) = "-"
        u == IF t # <<>> /\ Head(t) \in {"-", "+"} THEN Tail(t) ELSE t
    IN  IF u = <<>> \/ ~IsDigit(Head(u)) THEN NaN
        ELSE Num(IF neg THEN 0 - DigitPrefix(u, 0) ELSE DigitPrefix(u, 0))

\* JavaScript truthiness of a value that is null or a string
Truthy(v) == v.tag = "string" /\ v.s # <<>>

\* ----------------------------------------------------------------- storage
lastShownKey(featureId) == <<"popup", featureId, "lastShown">>

\* one dismissed entry for all announcements
dismissedKey_shared(featureId) == <<"popup", "grafana_helm_setup_2025_ultra_v2", "dismissed">>

dismissedKey(featureId) == <<"popup", featureId, "dismissed">>

Keys == {lastShownKey(f) : f \in StorageIds} \cup {dismissedKey(f) : f \in StorageIds}

LinkUrl(featureId) ==
    IF featureId \in EarlierFeatureIds THEN "/docs/concepts/grafana-helm-setup"
    ELSE "/docs/concepts/workflow-queries-formatted-data"

NoProps == [featureId |-> "workflow_queries_formatted_data_2025", showDays |-> DefaultShowDays]

NoSnapshot == [lastShown |-> Null, dismissed |-> Null, now |-> 0]

NoTime == 0 - 1

NoEffect == [runs |-> 0, shows |-> 0]

\* Root renders one GrafanaSetupPopup; a page may hold more of them
WrapperIds == 1..MaxWrappers

\* what the earlier announcement may have left: nothing, a lastShown entry,
\* or a lastShown and a dismissed entry
EarlierEntries ==
    {[lastShown |-> Null, dismissed |-> Null],
     [lastShown |-> Str(toString(0)), dismissed |-> Null],
     [lastShown |-> Str(toString(0)), dismissed |-> TrueString]}

VARIABLES
    variant,      \* which of the two source files of the component is built
    storage,      \* localStorage: key -> Null or string
    now,          \* new Date().getTime()
    pageOpen,     \* a page of the site is loaded in the browser
    mounted,      \* a NewFeaturePopup instance is mounted
    props,        \* its featureId and showDays
    isVisible,    \* useState(false)
    isAnimating,  \* useState(false)
    timers,       \* pending setTimeout callbacks
    history,      \* the urls pushed to the router
    mountCount,   \* number of page loads so far
    atMount,      \* history variable: the storage entries and clock at mount
    shownAt,      \* history variable: when this instance became visible
    everShown,    \* history variable: featureIds whose popup was displayed
    storageAccess,\* what localStorage allows: "ok", "readonly", "unavailable"
    uncaught,     \* an exception has left the component in this page load
    effect,       \* history variable: runs of the effect of this instance and
                  \* the shows they scheduled
    redismissed,  \* history variable: handleDismiss ran on a dismissed popup
    wrappers,     \* the GrafanaSetupPopup instances of the page
    releaseData,  \* the release file required by getReleaseData
    releases,     \* what getReleaseData returned
    latest,       \* what getLatestRelease returned
    majorReleases,\* what getMajorReleases returned
    files,        \* fetch-releases.sh: the three release files
    step,         \* fetch-releases.sh: the command the script is at
    status        \* fetch-releases.sh: $?, the status of the last command

\* the three repositories of repos=(...) and files=(...), by index
Repos == 1..3

\* a file of no bytes
EmptyFile == [kind |-> "empty", entries |-> <<>>]

\* the result of a function that has not been called
NotCalled == [tag |-> "notCalled", v |-> <<>>]

\* the releases page is not rendered
NoReleasesPage ==
    /\ releaseData = <<>>
    /\ releases = NotCalled
    /\ latest = NotCalled
    /\ majorReleases = NotCalled

\* the fetch script is not running
NoScript ==
    /\ files = [r \in Repos |-> EmptyFile]
    /\ step = 0
    /\ status = 0

vars == <<variant, storage, now, pageOpen, mounted, props, isVisible,
          isAnimating, timers, history, mountCount, atMount, shownAt,
          everShown, storageAccess, uncaught, effect, redismissed, wrappers,
          releaseData, releases, latest, majorReleases, files, step, status>>

\* the releases page and the fetch script
releasesPage == <<releaseData, releases, latest, majorReleases>>

script == <<files, step, status>>

\* what no step of the popup changes
site == <<variant, storageAccess, wrappers, releasesPage, script>>

ghost == <<atMount, shownAt, everShown, effect, redismissed>>

Init ==
    /\ variant \in Variants
    /\ \E earlier \in EarlierEntries :
          storage = [k \in Keys |->
                       IF k[2] \in FeatureIds THEN Null
                       ELSE IF k[3] = "lastShown" THEN earlier.lastShown
                       ELSE earlier.dismissed]
    /\ now = 0
    /\ pageOpen = FALSE
    /\ mounted = FALSE
    /\ props = NoProps
    /\ isVisible = FALSE
    /\ isAnimating = FALSE
    /\ timers = {}
    /\ history = <<>>
    /\ mountCount = 0
    /\ atMount = NoSnapshot
    /\ shownAt = NoTime
    /\ everShown = {}
    /\ storageAccess = "ok"
    /\ uncaught = FALSE
    /\ effect = NoEffect
    /\ redismissed = FALSE
    /\ wrappers = [w \in WrapperIds |-> "unmounted"]
    /\ NoReleasesPage
    /\ NoScript

\* ------------------------------------------------------------------ timers
Timer(cb, due) == [cb |-> cb, due |-> due, live |-> TRUE]

setTimeout(cb, delay) == timers \cup {Timer(cb, now + delay)}

WithinShowPeriod_never(t, lastShown, showDays) == FALSE

WithinShowPeriod_always(t, lastShown, showDays) == TRUE

WithinShowPeriod_inclusive(t, lastShown, showDays) ==
    LET p == ParseInt(lastShown)
    IN  ~p.nan /\ (t - p.n) <= showDays * MsPerDay

\* daysSinceLastShown < showDays, with
\* daysSinceLastShown = (now - parseInt(lastShown)) / (1000 * 60 * 60 * 24);
\* a comparison with NaN is false
WithinShowPeriod(t, lastShown, showDays) ==
    LET p == ParseInt(lastShown)
    IN  ~p.nan /\ (t - p.n) < showDays * MsPerDay

\* ------------------------------------------------------------- the effect
\* What a run of the effect does to the timers, the storage and the uncaught
\* exceptions.  getItem throws when localStorage is unavailable, setItem
\* throws when it is unavailable or read-only; the effect has no try/catch,
\* so the exception leaves it, and React removes the tree whose effect threw:
\* a timer the effect had already set is then the timer of a dead instance.

\* the effect without its early return on the dismissed entry
useEffect_ignoreDismissed(featureId, showDays) ==
    LET lastShown == storage[lastShownKey(featureId)]
    IN  /\ uncaught' = uncaught
        /\ IF ~Truthy(lastShown)
           THEN /\ timers' = setTimeout("show", ShowDelay)
                /\ storage' = [storage EXCEPT ![lastShownKey(featureId)] = Str(toString(now))]
           ELSE IF WithinShowPeriod(now, lastShown, showDays)
           THEN /\ timers' = setTimeout("show", ShowDelay)
                /\ storage' = storage
           ELSE /\ timers' = timers
                /\ storage' = storage

\* the effect writing lastShown on every show it schedules
useEffect_refreshLastShown(featureId, showDays) ==
    LET lastShown == storage[lastShownKey(featureId)]
        dismissed == storage[dismissedKey(featureId)]
    IN  /\ uncaught' = uncaught
        /\ IF Truthy(dismissed)
           THEN /\ timers' = timers
                /\ storage' = storage
           ELSE IF ~Truthy(lastShown) \/ WithinShowPeriod(now, lastShown, showDays)
           THEN /\ timers' = setTimeout("show", ShowDelay)
                /\ storage' = [storage EXCEPT ![lastShownKey(featureId)] = Str(toString(now))]
           ELSE /\ timers' = timers
                /\ storage' = storage

\* the effect starting a new show period once the old one is over
useEffect_restartsPeriod(featureId, showDays) ==
    LET lastShown == storage[lastShownKey(featureId)]
        dismissed == storage[dismissedKey(featureId)]
    IN  /\ uncaught' = uncaught
        /\ IF Truthy(dismissed)
           THEN /\ timers' = timers
                /\ storage' = storage
           ELSE IF ~Truthy(lastShown) \/ ~WithinShowPeriod(now, lastShown, showDays)
           THEN /\ timers' = setTimeout("show", ShowDelay)
                /\ storage' = [storage EXCEPT ![lastShownKey(featureId)] = Str(toString(now))]
           ELSE /\ timers' = setTimeout("show", ShowDelay)
                /\ storage' = storage

\* the body of useEffect(() => {...}, [featureId, showDays])
useEffect(featureId, showDays) ==
    LET lastShown == storage[lastShownKey(featureId)]
        dismissed == storage[dismissedKey(featureId)]
    IN  IF storageAccess = "unavailable"
        THEN /\ uncaught' = TRUE
             /\ timers' = timers
             /\ storage' = storage
        ELSE IF Truthy(dismissed)
        THEN /\ uncaught' = uncaught
             /\ timers' = timers
             /\ storage' = storage
        ELSE IF ~Truthy(lastShown)
        THEN IF storageAccess = "ok"
             THEN /\ uncaught' = uncaught
                  /\ timers' = setTimeout("show", ShowDelay)
                  /\ storage' = [storage EXCEPT ![lastShownKey(featureId)] = Str(toString(now))]
             ELSE /\ uncaught' = TRUE
                  /\ timers' = timers \cup {[Timer("show", now + ShowDelay) EXCEPT !.live = FALSE]}
                  /\ storage' = storage
        ELSE IF WithinShowPeriod(now, lastShown, showDays)
        THEN /\ uncaught' = uncaught
             /\ timers' = setTimeout("show", ShowDelay)
             /\ storage' = storage
        ELSE /\ uncaught' = uncaught
             /\ timers' = timers
             /\ storage' = storage

\* the live shows pending
LiveShows(ts) == {t \in ts : t.cb = "show" /\ t.live}

\* the counters of the effect after one more run
EffectRan == [runs |-> effect.runs + 1,
              shows |-> effect.shows + Cardinality(LiveShows(timers') \ LiveShows(timers))]

\* ---------------------------------------------------------------- handlers
\* handleClose forgetting that the popup was shown
handleClose_clearsLastShown ==
    /\ storage' = [storage EXCEPT ![lastShownKey(props.featureId)] = Null]
    /\ isAnimating' = FALSE
    /\ timers' = setTimeout("hide", HideDelay)
    /\ UNCHANGED <<history, uncaught, redismissed>>

handleClose ==
    /\ isAnimating' = FALSE
    /\ timers' = setTimeout("hide", HideDelay)
    /\ UNCHANGED <<storage, history, uncaught, redismissed>>

\* handleDismiss leaving the write of the dismissed entry out of the click
handleDismiss_noWrite ==
    /\ isAnimating' = FALSE
    /\ timers' = setTimeout("hide", HideDelay)
    /\ UNCHANGED <<storage, history, uncaught, redismissed>>

\* handleDismiss taking the dismissal back on a second click
handleDismiss_toggles ==
    /\ storage' = [storage EXCEPT ![dismissedKey(props.featureId)] =
                      IF @ = TrueString THEN Null ELSE TrueString]
    /\ isAnimating' = FALSE
    /\ timers' = setTimeout("hide", HideDelay)
    /\ redismissed' = (redismissed \/ storage[dismissedKey(props.featureId)] = TrueString)
    /\ UNCHANGED <<history, uncaught>>

\* setItem is the first statement after stopPropagation: when it throws, the
\* rest of the handler does not run
handleDismiss ==
    IF storageAccess = "ok"
    THEN /\ storage' = [storage EXCEPT ![dismissedKey(props.featureId)] = TrueString]
         /\ isAnimating' = FALSE
         /\ timers' = setTimeout("hide", HideDelay)
         /\ redismissed' = (redismissed \/ storage[dismissedKey(props.featureId)] = TrueString)
         /\ UNCHANGED <<history, uncaught>>
    ELSE /\ uncaught' = TRUE
         /\ UNCHANGED <<storage, isAnimating, timers, history, redismissed>>

\* handleNavigate also dismissing the popup
handleNavigate_dismisses ==
    /\ history' = Append(history, LinkUrl(props.featureId))
    /\ storage' = [storage EXCEPT ![dismissedKey(props.featureId)] = TrueString]
    /\ isAnimating' = FALSE
    /\ timers' = setTimeout("hide", HideDelay)
    /\ UNCHANGED <<uncaught, redismissed>>

handleNavigate ==
    /\ history' = Append(history, LinkUrl(props.featureId))
    /\ isAnimating' = FALSE
    /\ timers' = setTimeout("hide", HideDelay)
    /\ UNCHANGED <<storage, uncaught, redismissed>>

\* ------------------------------------------------------------- page events
\* A page of the site is loaded: Root renders the popup once, React mounts the
\* component, its states start at useState(false) and the effect runs
PageLoad(featureId, showDays) ==
    /\ ~pageOpen
    /\ mountCount < MaxMounts
    /\ now % LoadStep = 0
    /\ pageOpen' = TRUE
    /\ mountCount' = mountCount + 1
    /\ props' = [featureId |-> featureId, showDays |-> showDays]
    /\ isVisible' = FALSE
    /\ isAnimating' = FALSE
    /\ useEffect(featureId, showDays)
    /\ mounted' = ~uncaught'
    /\ effect' = EffectRan
    /\ atMount' = [lastShown |-> storage[lastShownKey(featureId)],
                   dismissed |-> storage[dismissedKey(featureId)],
                   now |-> now]
    /\ shownAt' = NoTime
    /\ redismissed' = FALSE
    /\ UNCHANGED <<site, now, history, everShown>>

\* React unmounts the component: its state is gone; the effect returns no
\* cleanup, so its timers stay pending and fire on the dead instance
Unmount ==
    /\ mounted
    /\ mounted' = FALSE
    /\ isVisible' = FALSE
    /\ isAnimating' = FALSE
    /\ timers' = {[t EXCEPT !.live = FALSE] : t \in timers}
    /\ props' = NoProps
    /\ atMount' = NoSnapshot
    /\ shownAt' = NoTime
    /\ effect' = NoEffect
    /\ redismissed' = FALSE
    /\ UNCHANGED <<site, storage, now, pageOpen, history, mountCount,
                   everShown, uncaught>>

\* the page is reloaded or left: the page and its timers are gone; the
\* entries pushed to the session history stay
ClosePage ==
    /\ pageOpen
    /\ pageOpen' = FALSE
    /\ mounted' = FALSE
    /\ isVisible' = FALSE
    /\ isAnimating' = FALSE
    /\ timers' = {}
    /\ props' = NoProps
    /\ atMount' = NoSnapshot
    /\ shownAt' = NoTime
    /\ effect' = NoEffect
    /\ redismissed' = FALSE
    /\ uncaught' = FALSE
    /\ UNCHANGED <<site, storage, now, history, mountCount, everShown>>

\* ------------------------------------------------------------------- clock
NextDue == CHOOSE d \in {t.due : t \in timers} : \A t \in timers : d <= t.due

NextLoad(t) == ((t \div LoadStep) + 1) * LoadStep

AdvanceToTimer ==
    /\ timers # {}
    /\ NextDue > now
    /\ now' = NextDue
    /\ UNCHANGED <<site, storage, pageOpen, mounted, props, isVisible,
                   isAnimating, timers, history, mountCount, ghost, uncaught>>

\* nothing is pending: the clock runs on to the next instant of the load grid
AdvanceToLoad ==
    /\ timers = {}
    /\ NextLoad(now) <= MaxNow
    /\ now' = NextLoad(now)
    /\ UNCHANGED <<site, storage, pageOpen, mounted, props, isVisible,
                   isAnimating, timers, history, mountCount, ghost, uncaught>>

\* --------------------------------------------------------- timer callbacks
\* the show callback setting the animated flag together with the visible one
FireShow_animatesAtOnce(t) ==
    /\ t \in timers /\ t.cb = "show" /\ t.due <= now
    /\ timers' = timers \ {t}
    /\ isVisible' = IF t.live THEN TRUE ELSE isVisible
    /\ isAnimating' = IF t.live THEN TRUE ELSE isAnimating
    /\ shownAt' = IF t.live /\ ~isVisible THEN now ELSE shownAt
    /\ everShown' = IF t.live THEN everShown \cup {props.featureId} ELSE everShown
    /\ UNCHANGED <<site, storage, now, pageOpen, mounted, props,
                   history, mountCount, atMount, effect, redismissed, uncaught>>

\* () => { setIsVisible(true); setTimeout(() => setIsAnimating(true), 100); }
FireShow(t) ==
    /\ t \in timers /\ t.cb = "show" /\ t.due <= now
    /\ timers' = (timers \ {t}) \cup {[cb |-> "animate", due |-> now + AnimateDelay, live |-> t.live]}
    /\ isVisible' = IF t.live THEN TRUE ELSE isVisible
    /\ shownAt' = IF t.live /\ ~isVisible THEN now ELSE shownAt
    /\ everShown' = IF t.live THEN everShown \cup {props.featureId} ELSE everShown
    /\ UNCHANGED <<site, storage, now, pageOpen, mounted, props, isAnimating,
                   history, mountCount, atMount, effect, redismissed, uncaught>>

\* () => setIsAnimating(true)
FireAnimate(t) ==
    /\ t \in timers /\ t.cb = "animate" /\ t.due <= now
    /\ timers' = timers \ {t}
    /\ isAnimating' = IF t.live THEN TRUE ELSE isAnimating
    /\ UNCHANGED <<site, storage, now, pageOpen, mounted, props, isVisible,
                   history, mountCount, ghost, uncaught>>

\* the hide callback scheduling the popup again
FireHide_snoozes(t) ==
    /\ t \in timers /\ t.cb = "hide" /\ t.due <= now
    /\ timers' = (timers \ {t}) \cup {[cb |-> "show", due |-> now + ShowDelay, live |-> t.live]}
    /\ isVisible' = IF t.live THEN FALSE ELSE isVisible
    /\ UNCHANGED <<site, storage, now, pageOpen, mounted, props, isAnimating,
                   history, mountCount, ghost, uncaught>>

\* () => setIsVisible(false)
FireHide(t) ==
    /\ t \in timers /\ t.cb = "hide" /\ t.due <= now
    /\ timers' = timers \ {t}
    /\ isVisible' = IF t.live THEN FALSE ELSE isVisible
    /\ UNCHANGED <<site, storage, now, pageOpen, mounted, props, isAnimating,
                   history, mountCount, ghost, uncaught>>

\* ------------------------------------------------------------------ clicks
\* the handlers are reachable only through the rendered elements
Rendered == mounted /\ isVisible

\* what no click changes
unclicked == <<site, now, pageOpen, mounted, props, isVisible, mountCount,
               atMount, shownAt, everShown, effect>>

\* <div className={styles.overlay} onClick={handleClose} />
ClickOverlay ==
    /\ Rendered
    /\ handleClose
    /\ UNCHANGED unclicked

\* handleDismiss without its call of e.stopPropagation()
stopPropagation_skipped == FALSE

\* if (e) { e.stopPropagation(); }: React passes the click event to
\* handleDismiss, so the propagation of the click is stopped
stopPropagation == TRUE

\* handleDismiss of a button, then handleNavigate of the popup div around it:
\* what one click runs when it bubbles from the button to the div
handleDismissBubbling ==
    /\ storage' = [storage EXCEPT ![dismissedKey(props.featureId)] = TrueString]
    /\ history' = Append(history, LinkUrl(props.featureId))
    /\ isAnimating' = FALSE
    /\ timers' = setTimeout("hide", HideDelay)
    /\ redismissed' = (redismissed \/ storage[dismissedKey(props.featureId)] = TrueString)
    /\ UNCHANGED uncaught

\* a click on a button whose onClick is handleDismiss.  In part_007 the button
\* lies inside <div className={styles.popup} onClick={handleNavigate}>, and a
\* click whose propagation is not stopped reaches that handler too; in
\* index.tsx the popup div has no onClick
clickDismissControl ==
    IF variant = "part_007" /\ storageAccess = "ok" /\ ~stopPropagation
    THEN handleDismissBubbling
    ELSE handleDismiss

\* <button className={styles.closeButton} ...>: onClick={handleClose} in
\* index.tsx, onClick={handleDismiss} in part_007
ClickCloseButton ==
    /\ Rendered
    /\ IF variant = "index_tsx" THEN handleClose ELSE clickDismissControl
    /\ UNCHANGED unclicked

\* <button className={styles.secondaryButton} onClick={handleDismiss}>; in
\* part_007 handleDismiss stops the propagation to the popup's onClick
ClickMaybeLater ==
    /\ Rendered
    /\ clickDismissControl
    /\ UNCHANGED unclicked

\* the call to action: <button className={styles.primaryButton}
\* onClick={handleNavigate}> in index.tsx, the popup's own
\* onClick={handleNavigate} in part_007
ClickEngage ==
    /\ Rendered
    /\ Len(history) < MaxPushes
    /\ handleNavigate
    /\ UNCHANGED unclicked

Next ==
    \/ \E f \in FeatureIds, d \in ShowDaysValues : PageLoad(f, d)
    \/ Unmount
    \/ ClosePage
    \/ AdvanceToTimer
    \/ AdvanceToLoad
    \/ \E t \in timers : FireShow(t)
    \/ \E t \in timers : FireAnimate(t)
    \/ \E t \in timers : FireHide(t)
    \/ ClickOverlay
    \/ ClickCloseButton
    \/ ClickMaybeLater
    \/ ClickEngage

Spec == Init /\ [][Next]_vars

\* ------------------------------------------------- the browser's storage
\* The state of a page that is not loaded yet
Unloaded ==
    /\ now = 0
    /\ pageOpen = FALSE
    /\ mounted = FALSE
    /\ props = NoProps
    /\ isVisible = FALSE
    /\ isAnimating = FALSE
    /\ timers = {}
    /\ history = <<>>
    /\ mountCount = 0
    /\ atMount = NoSnapshot
    /\ shownAt = NoTime
    /\ everShown = {}
    /\ uncaught = FALSE
    /\ effect = NoEffect
    /\ redismissed = FALSE
    /\ wrappers = [w \in WrapperIds |-> "unmounted"]

\* localStorage as a browser may hand it to the page: working, refusing
\* writes (setItem throws), or refusing every access (getItem throws too)
StorageAccess == {"ok", "readonly", "unavailable"}

\* what getItem(`popup_${featureId}_lastShown`) may return in a browser whose
\* entry was not written by this component: null, "", "abc", "12abc"
StoredLastShown ==
    {Null, Str(<<>>), Str(<<"a", "b", "c">>), Str(<<"1", "2", "a", "b", "c">>)}

InitBrowser ==
    /\ variant \in Variants
    /\ storageAccess \in StorageAccess
    /\ \E stored \in StoredLastShown :
          storage = [k \in Keys |->
                       IF k[2] \in FeatureIds /\ k[3] = "lastShown" THEN stored
                       ELSE Null]
    /\ Unloaded
    /\ NoReleasesPage
    /\ NoScript

SpecBrowser == InitBrowser /\ [][Next]_vars

\* ------------------------------------------------------------- one visit
\* A browser that may have visited the site before: the entries of the
\* announcement are absent, or as an earlier page load at clock 0 left them
InitVisit ==
    /\ variant \in Variants
    /\ storageAccess = "ok"
    /\ \E left \in EarlierEntries :
          storage = [k \in Keys |->
                       IF k[2] \notin FeatureIds THEN Null
                       ELSE IF k[3] = "lastShown" THEN left.lastShown
                       ELSE left.dismissed]
    /\ Unloaded
    /\ NoReleasesPage
    /\ NoScript

\* the first page load of this behaviour, on any day
FirstPageLoad(featureId, showDays) ==
    /\ mountCount = 0
    /\ PageLoad(featureId, showDays)

\* one page load, from the mount to the end of the page
NextVisit ==
    \/ \E f \in FeatureIds, d \in ShowDaysValues : FirstPageLoad(f, d)
    \/ Unmount
    \/ ClosePage
    \/ AdvanceToTimer
    \/ AdvanceToLoad
    \/ \E t \in timers : FireShow(t)
    \/ \E t \in timers : FireAnimate(t)
    \/ \E t \in timers : FireHide(t)
    \/ ClickOverlay
    \/ ClickCloseButton
    \/ ClickMaybeLater
    \/ ClickEngage

\* the event loop of the browser: time passes, and a timer that is due fires
TimersFire ==
    /\ WF_vars(AdvanceToTimer)
    /\ WF_vars(\E t \in timers : FireShow(t))
    /\ WF_vars(\E t \in timers : FireAnimate(t))
    /\ WF_vars(\E t \in timers : FireHide(t))

SpecLive == InitVisit /\ [][NextVisit]_vars /\ TimersFire

\* ---------------------------------------------------------- changing props
\* the effect declared without its dependency array: it runs after every render
Rerender_noDeps(featureId, showDays) ==
    /\ mounted
    /\ effect.runs < MaxEffectRuns
    /\ props' = [featureId |-> featureId, showDays |-> showDays]
    /\ useEffect(featureId, showDays)
    /\ effect' = EffectRan
    /\ mounted' = ~(uncaught' /\ ~uncaught)
    /\ UNCHANGED <<site, now, pageOpen, isVisible, isAnimating, history,
                   mountCount, atMount, shownAt, everShown, redismissed>>

\* The parent renders the mounted popup again with these props.  The states
\* isVisible and isAnimating are kept; the effect has the dependencies
\* [featureId, showDays], so React runs it again exactly when one of the two
\* differs from the previous render; there is no cleanup to run before it
Rerender(featureId, showDays) ==
    /\ mounted
    /\ effect.runs < MaxEffectRuns
    /\ props' = [featureId |-> featureId, showDays |-> showDays]
    /\ IF props' # props
       THEN /\ useEffect(featureId, showDays)
            /\ effect' = EffectRan
       ELSE UNCHANGED <<timers, storage, uncaught, effect>>
    /\ mounted' = ~(uncaught' /\ ~uncaught)
    /\ UNCHANGED <<site, now, pageOpen, isVisible, isAnimating, history,
                   mountCount, atMount, shownAt, everShown, redismissed>>

\* the life of an instance that stays mounted until its page is left; of the
\* clicks, the dismissal is the one the decision depends on
NextProps ==
    \/ \E f \in FeatureIds, d \in ShowDaysValues : FirstPageLoad(f, d)
    \/ \E f \in FeatureIds, d \in ShowDaysValues : Rerender(f, d)
    \/ ClosePage
    \/ AdvanceToTimer
    \/ AdvanceToLoad
    \/ \E t \in timers : FireShow(t)
    \/ \E t \in timers : FireAnimate(t)
    \/ \E t \in timers : FireHide(t)
    \/ ClickMaybeLater

SpecProps == Init /\ [][NextProps]_vars

\* ------------------------------------------------------------ the wrapper
\* GrafanaSetupPopup: useState(false) for shouldRender, an effect that looks
\* for an element with the data-popup-id of the announcement and sets
\* shouldRender when there is none, and a render of that element around the
\* popup once shouldRender is set.  A wrapper is "unmounted", "effectPending"
\* (committed with shouldRender = false, its effect not run yet),
\* "renderPending" (shouldRender set, not rendered again yet), "rendered" (its
\* element and its NewFeaturePopup are in the document) or "skipped".
popupState == <<variant, storageAccess, storage, now, pageOpen, mounted,
                props, isVisible, isAnimating, timers, history, mountCount,
                atMount, shownAt, everShown, uncaught, effect, redismissed>>

popup == <<popupState, releasesPage, script>>

Pending == {w \in WrapperIds : wrappers[w] \in {"effectPending", "renderPending"}}

\* one render pass commits the wrappers of S, each returning null
MountWrappers(S) ==
    /\ S # {}
    /\ Pending = {}
    /\ \A w \in S : wrappers[w] = "unmounted"
    /\ wrappers' = [w \in WrapperIds |-> IF w \in S THEN "effectPending" ELSE wrappers[w]]
    /\ UNCHANGED popup

\* document.querySelector('[data-popup-id=...]'), then setShouldRender(true)
\* when nothing is found
WrapperEffect(w) ==
    /\ wrappers[w] = "effectPending"
    /\ wrappers' = [wrappers EXCEPT ![w] =
                      IF \E v \in WrapperIds : wrappers[v] = "rendered"
                      THEN "skipped" ELSE "renderPending"]
    /\ UNCHANGED popup

\* the render that follows setShouldRender(true); React runs the effects of a
\* commit before it renders the updates they made
WrapperRender(w) ==
    /\ wrappers[w] = "renderPending"
    /\ \A v \in WrapperIds : wrappers[v] # "effectPending"
    /\ wrappers' = [wrappers EXCEPT ![w] = "rendered"]
    /\ UNCHANGED popup

WrapperUnmount(w) ==
    /\ wrappers[w] \in {"rendered", "skipped"}
    /\ wrappers' = [wrappers EXCEPT ![w] = "unmounted"]
    /\ UNCHANGED popup

NextWrappers ==
    \/ \E S \in SUBSET WrapperIds : MountWrappers(S)
    \/ \E w \in WrapperIds : WrapperEffect(w)
    \/ \E w \in WrapperIds : WrapperRender(w)
    \/ \E w \in WrapperIds : WrapperUnmount(w)

SpecWrappers == Init /\ [][NextWrappers]_vars

\* ------------------------------------------------------ the releases page
\* the characters of tags and timestamps, in the order of their code units
Alphabet == <<"-", ".", "0", "1", "2", "3", "4", "5", "6", "7", "8", "9", "T", "c", "r", "v">>

CodeUnit(c) == CHOOSE i \in DOMAIN Alphabet : Alphabet[i] = c

\* a < b on JavaScript strings, as lodash compares the keys of orderBy
RECURSIVE StrLess(_, _)
StrLess(a, b) ==
    IF b = <<>> THEN FALSE
    ELSE IF a = <<>> THEN TRUE
    ELSE IF Head(a) = Head(b) THEN StrLess(Tail(a), Tail(b))
    ELSE CodeUnit(Head(a)) < CodeUnit(Head(b))

\* \d+ at the start of s: the longest run of digits
RECURSIVE DigitRun(_)
DigitRun(s) ==
    IF s = <<>> \/ ~IsDigit(Head(s)) THEN <<>>
    ELSE <<Head(s)>> \o DigitRun(Tail(s))

Drop(s, n) == SubSeq(s, n + 1, Len(s))

NoMatch == [matched |-> FALSE, groups |-> [major |-> <<>>, minor |-> <<>>, patch |-> <<>>]]

\* tag_name.match(/^v?(?<major>\d+)\.(?<minor>\d+)\.(?<patch>\d+)/)
Match(tag) ==
    LET t0 == IF tag # <<>> /\ Head(tag) = "v" THEN Tail(tag) ELSE tag
        major == DigitRun(t0)
        t1 == Drop(t0, Len(major))
        minor == IF t1 # <<>> /\ Head(t1) = "." THEN DigitRun(Tail(t1)) ELSE <<>>
        t2 == Drop(t1, Len(minor) + 1)
        patch == IF t2 # <<>> /\ Head(t2) = "." THEN DigitRun(Tail(t2)) ELSE <<>>
    IN  IF major = <<>> \/ minor = <<>> \/ patch = <<>> THEN NoMatch
        ELSE [matched |-> TRUE,
              groups |-> [major |-> major, minor |-> minor, patch |-> patch]]

\* new Date(published_at).getTime(): the timestamps are UTC strings of one
\* width, day digits, "T", hour digit
getTime(published_at) == DigitPrefix(SelectSeq(published_at, IsDigit), 0)

\* new Date(published_at).toISOString().split("T", 1)[0]
RECURSIVE BeforeT(_)
BeforeT(s) ==
    IF s = <<>> \/ Head(s) = "T" THEN <<>>
    ELSE <<Head(s)>> \o BeforeT(Tail(s))

\* new Date(published_at).toLocaleDateString(): the day, as the locale writes it
toLocaleDateString(published_at) == [day |-> DigitPrefix(published_at, 0)]

\* _.orderBy(collection, [key], ["desc"]) on pairs [k, r] of a key and its
\* element: a stable sort, the greater keys first
RECURSIVE InsertDesc(_, _)
InsertDesc(x, sorted) ==
    IF sorted = <<>> THEN <<x>>
    ELSE IF StrLess(Head(sorted).k, x.k) THEN <<x>> \o sorted
    ELSE <<Head(sorted)>> \o InsertDesc(x, Tail(sorted))

RECURSIVE orderByDesc(_)
orderByDesc(pairs) ==
    IF pairs = <<>> THEN <<>>
    ELSE InsertDesc(pairs[Len(pairs)], orderByDesc(SubSeq(pairs, 1, Len(pairs) - 1)))

\* _.extend({}, release, {published_at_string, published_at_date, version})
extend(release) ==
    [id |-> release.id,
     tag_name |-> release.tag_name,
     published_at |-> release.published_at,
     prerelease |-> release.prerelease,
     draft |-> release.draft,
     published_at_string |-> toLocaleDateString(release.published_at),
     published_at_date |-> BeforeT(release.published_at),
     version |-> Match(release.tag_name).groups]

\* getReleaseData mapping the releases in the order of the file
getReleaseData_unsorted(source) ==
    [tag |-> "value", v |-> [i \in DOMAIN source |-> extend(source[i])]]

\* versionMatch is null for a tag_name the expression does not match, and
\* versionMatch.groups then throws a TypeError out of map and of getReleaseData
getReleaseData(source) ==
    LET sorted == orderByDesc([i \in DOMAIN source |->
                                  [k |-> source[i].published_at, r |-> source[i]]])
    IN  IF \E i \in DOMAIN source : ~Match(source[i].tag_name).matched
        THEN [tag |-> "TypeError", v |-> <<>>]
        ELSE [tag |-> "value", v |-> [i \in DOMAIN sorted |-> extend(sorted[i].r)]]

Stable(release) == release.prerelease = FALSE /\ release.draft = FALSE

\* getLatestRelease taking a draft for a release
getLatestRelease_ignoresDraft(list) ==
    IF \E i \in DOMAIN list : ~list[i].prerelease
    THEN [tag |-> "value",
          v |-> <<list[CHOOSE i \in DOMAIN list :
                         /\ ~list[i].prerelease
                         /\ \A j \in 1..(i - 1) : list[j].prerelease]>>]
    ELSE [tag |-> "undefined", v |-> <<>>]

\* _.find(releases, (release) => release.prerelease === false &&
\* release.draft === false): the first such element, or undefined
getLatestRelease(list) ==
    IF \E i \in DOMAIN list : Stable(list[i])
    THEN [tag |-> "value",
          v |-> <<list[CHOOSE i \in DOMAIN list :
                         /\ Stable(list[i])
                         /\ \A j \in 1..(i - 1) : ~Stable(list[j])]>>]
    ELSE [tag |-> "undefined", v |-> <<>>]

\* `v${r.version.major}.${r.version.minor}`
groupKey(r) == <<"v">> \o r.version.major \o <<".">> \o r.version.minor

\* _.groupBy: an object whose keys are in the order of their first element,
\* each with its elements in the order of the collection
RECURSIVE groupBy(_)
groupBy(list) ==
    IF list = <<>> THEN <<>>
    ELSE LET groups == groupBy(SubSeq(list, 1, Len(list) - 1))
             r == list[Len(list)]
         IN  IF \E g \in DOMAIN groups : groups[g].key = groupKey(r)
             THEN [g \in DOMAIN groups |->
                     IF groups[g].key = groupKey(r)
                     THEN [key |-> groups[g].key, releases |-> Append(groups[g].releases, r)]
                     ELSE groups[g]]
             ELSE Append(groups, [key |-> groupKey(r), releases |-> <<r>>])

\* _(releases).orderBy(["version.major"], ["desc"]).groupBy(...).value();
\* version.major is the string the expression captured
getMajorReleases(list) ==
    LET sorted == orderByDesc([i \in DOMAIN list |-> [k |-> list[i].version.major, r |-> list[i]]])
    IN  [tag |-> "value", v |-> groupBy([i \in DOMAIN sorted |-> sorted[i].r])]

\* the releases a file may hold, each a tag_name, a published_at and the two
\* flags: v1.0.0, v0.9.1, the prerelease v1.1.0 published with v1.0.0, the
\* draft v10.0.0 and 9.2.0
Catalogue ==
    {[tag_name |-> <<"v", "1", ".", "0", ".", "0">>,
      published_at |-> <<"0", "3", "T", "1">>, prerelease |-> FALSE, draft |-> FALSE],
     [tag_name |-> <<"v", "0", ".", "9", ".", "1">>,
      published_at |-> <<"0", "1", "T", "0">>, prerelease |-> FALSE, draft |-> FALSE],
     [tag_name |-> <<"v", "1", ".", "1", ".", "0", "-", "r", "c">>,
      published_at |-> <<"0", "3", "T", "1">>, prerelease |-> TRUE, draft |-> FALSE],
     [tag_name |-> <<"v", "1", "0", ".", "0", ".", "0">>,
      published_at |-> <<"0", "4", "T", "0">>, prerelease |-> FALSE, draft |-> TRUE],
     [tag_name |-> <<"9", ".", "2", ".", "0">>,
      published_at |-> <<"0", "2", "T", "5">>, prerelease |-> FALSE, draft |-> FALSE]}

\* releases whose tag is not a version: v1.0 and rc
OtherTags ==
    {[tag_name |-> <<"v", "1", ".", "0">>,
      published_at |-> <<"0", "2", "T", "0">>, prerelease |-> FALSE, draft |-> FALSE],
     [tag_name |-> <<"r", "c">>,
      published_at |-> <<"0", "5", "T", "0">>, prerelease |-> TRUE, draft |-> FALSE]}

\* the release files of up to MaxReleases releases of the set kinds, the id of
\* a release being its place in the file
ReleaseFiles(kinds) ==
    UNION {{[i \in 1..n |->
               [id |-> i,
                tag_name |-> ks[i].tag_name,
                published_at |-> ks[i].published_at,
                prerelease |-> ks[i].prerelease,
                draft |-> ks[i].draft]] : ks \in [1..n -> kinds]} : n \in 0..MaxReleases}

\* no popup is on the page
NoPopup ==
    /\ variant = "index_tsx"
    /\ storageAccess = "ok"
    /\ storage = [k \in Keys |-> Null]
    /\ Unloaded

InitReleases ==
    /\ NoPopup
    /\ NoScript
    /\ releaseData \in ReleaseFiles(Catalogue)
    /\ releases = NotCalled
    /\ latest = NotCalled
    /\ majorReleases = NotCalled

InitTags ==
    /\ NoPopup
    /\ NoScript
    /\ releaseData \in ReleaseFiles(Catalogue \cup OtherTags)
    /\ releases = NotCalled
    /\ latest = NotCalled
    /\ majorReleases = NotCalled

CallGetReleaseData ==
    /\ releases = NotCalled
    /\ releases' = getReleaseData(releaseData)
    /\ UNCHANGED <<releaseData, latest, majorReleases, popupState, wrappers, script>>

CallGetLatestRelease ==
    /\ releases.tag = "value"
    /\ latest = NotCalled
    /\ latest' = getLatestRelease(releases.v)
    /\ UNCHANGED <<releaseData, releases, majorReleases, popupState, wrappers, script>>

\* ListReleases: let majorReleases = getMajorReleases(releases)
CallGetMajorReleases ==
    /\ releases.tag = "value"
    /\ majorReleases = NotCalled
    /\ majorReleases' = getMajorReleases(releases.v)
    /\ UNCHANGED <<releaseData, releases, latest, popupState, wrappers, script>>

NextReleases ==
    \/ CallGetReleaseData
    \/ CallGetLatestRelease
    \/ CallGetMajorReleases

SpecReleases == InitReleases /\ [][NextReleases]_vars

SpecTags == InitTags /\ [][NextReleases]_vars

----------------------------------------------------------------------------
\* scripts/fetch-releases.sh: the fetch loop over the three repositories, then
\* the validation loop over the three files. step counts the commands of the
\* two loops that have run and status is $? of the last of them; the script
\* has no set -e, so every command runs and the script exits with the status
\* of the last one.

Commands == 2 * Cardinality(Repos)

\* a release of a response: whether it has tag_name, body and assets
Entries ==
    {e \in [tag_name : BOOLEAN, body : BOOLEAN, assets : BOOLEAN] : e.tag_name \/ e.body}

\* what gh api writes to the pipe: the array of releases, the error object of
\* a request the API refused, or nothing when the request could not be made
Responses ==
    {[kind |-> "array", entries |-> es] :
        es \in UNION {[1..n -> Entries] : n \in 0..MaxEntries}}
    \cup {[kind |-> "error", entries |-> <<>>], [kind |-> "none", entries |-> <<>>]}

Failures == {response \in Responses : response.kind # "array"}

\* the file of a repository as the last run of the script left it
Stored ==
    [kind |-> "array", entries |-> <<[tag_name |-> TRUE, body |-> TRUE, assets |-> FALSE]>>]

\* jq 'del(.[].assets)': the output and the exit status. Nothing is written
\* for no input (status 0) and for the error object, whose values cannot be
\* indexed with "assets" (status 5)
del(response) ==
    IF response.kind = "array"
    THEN [out |-> [kind |-> "array",
                   entries |-> [i \in DOMAIN response.entries |->
                                  [response.entries[i] EXCEPT !.assets = FALSE]]],
          status |-> 0]
    ELSE [out |-> EmptyFile, status |-> IF response.kind = "error" THEN 5 ELSE 0]

\* jq '.[] | has("tag_name") and has("body")' -e: one boolean per release;
\* the status is 0 when the last output is true, 1 when it is false and 4
\* when there is no output
validate(file) ==
    IF file.entries = <<>> THEN 4
    ELSE LET last == file.entries[Len(file.entries)]
         IN  IF last.tag_name /\ last.body THEN 0 ELSE 1

InitScript ==
    /\ NoPopup
    /\ NoReleasesPage
    /\ files = [r \in Repos |-> Stored]
    /\ step = 0
    /\ status = 0

\* gh api ... | jq 'del(.[].assets)' > "${files[$i]}": the shell truncates the
\* file before the pipeline runs, and what jq writes becomes its content
Fetch(r, response) ==
    /\ step = r - 1
    /\ files' = [files EXCEPT ![r] = del(response).out]
    /\ status' = del(response).status
    /\ step' = step + 1
    /\ UNCHANGED <<popupState, wrappers, releasesPage>>

\* jq ... -e "$file" > /dev/null
Validate(r) ==
    /\ step = Cardinality(Repos) + r - 1
    /\ status' = validate(files[r])
    /\ step' = step + 1
    /\ UNCHANGED <<files, popupState, wrappers, releasesPage>>

\* the last command has run: the script exits with its status
Exited == step = Commands

NextScript ==
    \/ \E r \in Repos, response \in Responses : Fetch(r, response)
    \/ \E r \in Repos : Validate(r)

SpecScript == InitScript /\ [][NextScript]_vars

\* ======================================================== the properties
\* the entries of the mounted popup, now and as they were at its mount
LastShownEntry == storage[lastShownKey(props.featureId)]

DismissedEntry == storage[dismissedKey(props.featureId)]

\* a show of the mounted instance is pending
ShowPending == \E t \in timers : t.cb = "show" /\ t.live

\* the show of this mount is pending, or has made the popup visible
ShowScheduled ==
    \/ Timer("show", atMount.now + ShowDelay) \in timers
    \/ shownAt # NoTime /\ shownAt >= atMount.now + ShowDelay

\* this mount scheduled no show: none is pending and the popup never showed
NoShow == ~ShowPending /\ shownAt = NoTime /\ ~isVisible

\* the delay of this mount is over and its show callback, if any, has run
DelayOver == now >= atMount.now + ShowDelay /\ ~ShowPending

\* the mount found a lastShown entry and no dismissed entry
Returning == mounted /\ atMount.dismissed = Null /\ atMount.lastShown # Null

\* milliseconds from lastShownAt to the mount
ElapsedAtMount == atMount.now - ParseInt(atMount.lastShown).n

\* C1: in a page load that starts with the dismissed entry present the popup
\* is never visible and no show is ever pending, whatever lastShown and the
\* clock are
C1_DismissedNeverRendered ==
    (mounted /\ atMount.dismissed # Null) => (~isVisible /\ ~ShowPending)

\* a later page load of a dismissed popup, the display delay long over
C1_Witness ==
    /\ mounted /\ atMount.dismissed = TrueString /\ atMount.lastShown # Null
    /\ mountCount >= 2
    /\ now >= atMount.now + ShowDelay

\* C2 as stated: the click on "Maybe later" writes the dismissed entry and
\* the popup is hidden in that same step
C2_DismissHidesAtOnce ==
    [][ClickMaybeLater => (DismissedEntry' = TrueString /\ ~isVisible')]_vars

\* C2 amended: the click on "Maybe later" writes the dismissed entry "true" in
\* the click itself, clears the animated flag and schedules the hide HideDelay
\* later; the popup is still rendered until that timer fires
C2_DismissPersistsAtClick ==
    [][ClickMaybeLater =>
        /\ DismissedEntry' = TrueString
        /\ isAnimating' = FALSE
        /\ isVisible'
        /\ Timer("hide", now + HideDelay) \in timers']_vars

\* the popup has just been dismissed: entry written, hide still pending
C2_Witness ==
    /\ mounted /\ isVisible /\ atMount.dismissed = Null
    /\ DismissedEntry = TrueString
    /\ \E t \in timers : t.cb = "hide" /\ t.live /\ t.due > now

\* C3: on a first-ever load (no lastShown, no dismissed entry) the lastShown
\* entry holds the time at which the popup became visible
C3_LastShownIsRenderTime ==
    (mounted /\ atMount.lastShown = Null /\ atMount.dismissed = Null /\ isVisible)
        => ParseInt(LastShownEntry) = Num(shownAt)

\* C4: a lastShown entry is present only if the popup of that featureId has
\* been displayed at least once
C4_LastShownImpliesShown ==
    \A f \in FeatureIds : storage[lastShownKey(f)] # Null => f \in everShown

\* C5: once written, the lastShown entry of a featureId is never changed
C5_LastShownWrittenOnce ==
    [][\A f \in StorageIds :
          storage[lastShownKey(f)] # Null
              => storage'[lastShownKey(f)] = storage[lastShownKey(f)]]_vars

\* a later page load has shown the popup again, at another time than the
\* stored one
C5_Witness ==
    /\ Returning /\ isVisible /\ mountCount >= 2
    /\ ParseInt(LastShownEntry) # Num(atMount.now)

\* the mount happens when lastShownAt = now - (showDays - 1) days
OneDayShort ==
    /\ Returning
    /\ ParseInt(atMount.lastShown) = Num(atMount.now - (props.showDays - 1) * MsPerDay)

\* the mount happens when lastShownAt = now - (showDays + 1) days
OneDayOver ==
    /\ Returning
    /\ ParseInt(atMount.lastShown) = Num(atMount.now - (props.showDays + 1) * MsPerDay)

\* C6 as stated: loaded showDays - 1 days after lastShownAt, not dismissed,
\* the popup does not render
C6_OneDayShortHidden == OneDayShort => ~isVisible

\* C6 amended: loaded showDays - 1 days after lastShownAt, not dismissed, the
\* show is scheduled at mount and the popup renders once the delay is over
C6_OneDayShortShown == OneDayShort => ShowScheduled

\* the popup is visible in a load showDays - 1 days after lastShownAt
C6_Witness == OneDayShort /\ isVisible /\ props.showDays = 2

\* C7 as stated: loaded showDays + 1 days after lastShownAt, not dismissed,
\* the popup renders
C7_OneDayOverShown == OneDayOver => ShowScheduled

\* C7 amended: loaded showDays + 1 days after lastShownAt, not dismissed, no
\* show is scheduled and the popup does not render
C7_OneDayOverHidden == OneDayOver => NoShow

\* a load showDays + 1 days after lastShownAt, the display delay long over
C7_Witness == OneDayOver /\ DelayOver

\* C8: on a mount with a lastShown entry and no dismissed entry, a show is
\* scheduled after the fixed delay exactly when now - lastShownAt is less than
\* showDays days, the boundary being on the side of no show, and the entry is
\* left as it was
C8_Decision ==
    Returning =>
        /\ LastShownEntry = atMount.lastShown
        /\ IF ElapsedAtMount < props.showDays * MsPerDay
           THEN ShowScheduled
           ELSE NoShow

\* a load exactly showDays days after lastShownAt, the display delay long over
C8_Witness ==
    /\ Returning
    /\ ElapsedAtMount = props.showDays * MsPerDay
    /\ DelayOver

\* C9: a click on the overlay or on the close control writes no storage entry
C9_CloseKeepsStorage ==
    [][(ClickOverlay \/ ClickCloseButton) => storage' = storage]_vars

\* C10: the click on the call to action pushes linkUrl while the popup is
\* still rendered, schedules the hide HideDelay later and writes no storage
\* entry
C10_EngagePushesThenHides ==
    [][ClickEngage =>
        /\ history' = Append(history, LinkUrl(props.featureId))
        /\ storage' = storage
        /\ isVisible'
        /\ isAnimating' = FALSE
        /\ Timer("hide", now + HideDelay) \in timers']_vars

\* the popup is visible again in a page load after the one it was engaged in
\* (an engagement in this load would still have its hide pending)
C10_Witness ==
    /\ mounted /\ isVisible /\ mountCount >= 2
    /\ history = <<LinkUrl(props.featureId)>>
    /\ ~\E t \in timers : t.cb = "hide"
    /\ DismissedEntry = Null

\* a stored string that is not the decimal notation of a number
NonNumeric(v) == v.tag = "string" /\ (v.s = <<>> \/ \E i \in DOMAIN v.s : ~IsDigit(v.s[i]))

\* C11: whatever localStorage allows, no exception leaves the component,
\* neither from the effect at mount nor from a click on the dismiss control
C11_NeverThrows == ~uncaught

\* C12: a mount with no dismissed entry that finds a non-numeric lastShown
\* entry takes the never-shown path: the show is scheduled after the fixed
\* delay and the entry is rewritten with the time of the mount
C12_MalformedAsAbsent ==
    (mounted /\ storageAccess = "ok" /\ atMount.dismissed = Null
        /\ NonNumeric(atMount.lastShown))
        => (ShowScheduled /\ ParseInt(LastShownEntry) = Num(atMount.now))

\* C13: no callback of an unmounted instance ever fires: the unmount has
\* cancelled every pending timer
C13_UnmountCancels ==
    [][\A t \in timers : ~t.live => ~(FireShow(t) \/ FireAnimate(t) \/ FireHide(t))]_vars

\* C14: of the wrappers mounted on one page, in any order or in the same
\* render pass, at most one renders a popup
C14_OnePopupPerPage ==
    Cardinality({w \in WrapperIds : wrappers[w] = "rendered"}) <= 1

\* C15: no step removes a storage entry, and a dismissed entry that is "true"
\* stays "true", across page loads as well
C15_EntriesNeverRemoved ==
    [][\A k \in Keys :
          /\ storage[k] # Null => storage'[k] # Null
          /\ (k[3] = "dismissed" /\ storage[k] = TrueString) => storage'[k] = TrueString]_vars

\* the third page load still finds both entries, the dismissed one "true"
C15_Witness ==
    /\ mounted /\ mountCount >= 3
    /\ atMount.dismissed = TrueString /\ DismissedEntry = TrueString
    /\ atMount.lastShown # Null /\ LastShownEntry = atMount.lastShown
    /\ now >= MsPerDay

\* the animation tick of the mounted instance is pending
AnimatePending == \E t \in timers : t.cb = "animate" /\ t.live

\* C16: within one mount the popup is never visible before ShowDelay has
\* passed since the mount, the animated flag is never set before the popup
\* has been visible for AnimateDelay, and a scheduled show of an instance that
\* stays mounted leads to the popup being visible and then animated
C16_ShowOrder ==
    /\ []((mounted /\ isVisible) => now >= atMount.now + ShowDelay)
    /\ [](isAnimating => (shownAt # NoTime /\ now >= shownAt + AnimateDelay))
    /\ ((mounted /\ ShowPending) ~> (isVisible \/ ~mounted))
    /\ ((mounted /\ AnimatePending) ~> (isAnimating \/ ~mounted))

\* the popup of this mount has become visible and then animated
C16_Witness ==
    /\ mounted /\ isVisible /\ isAnimating
    /\ shownAt = atMount.now + ShowDelay
    /\ now = shownAt + AnimateDelay
    /\ timers = {}

\* the hide of the mounted instance is pending
HidePending == \E t \in timers : t.cb = "hide" /\ t.live

\* C17: a click on the overlay, the close control or the call to action
\* leaves a hide pending; a pending hide leads to the popup being hidden; and
\* a popup that has been shown in this mount has no show pending and, once
\* hidden, stays hidden as long as the instance is mounted
C17_ClosedStaysHidden ==
    /\ [][(ClickOverlay \/ ClickCloseButton \/ ClickEngage) => HidePending']_vars
    /\ ((mounted /\ HidePending) ~> ~isVisible)
    /\ []((mounted /\ shownAt # NoTime) => ~ShowPending)
    /\ [][(mounted /\ mounted' /\ shownAt # NoTime /\ ~isVisible) => ~isVisible']_vars

\* the popup was shown in this mount and closed without a dismissal; its hide
\* has run and nothing is pending
C17_Witness ==
    /\ mounted /\ shownAt # NoTime /\ ~isVisible
    /\ DismissedEntry = Null
    /\ timers = {}
    /\ now >= shownAt + HideDelay

\* a click on a control wired to handleDismiss
ClickDismiss == ClickMaybeLater \/ (variant = "part_007" /\ ClickCloseButton)

\* C18: a click on the dismiss control sets the dismissed entry to "true" and
\* writes nothing else, so a click on a popup that is dismissed already
\* changes no entry; after any number of such clicks the dismissed entry is
\* "true" and the lastShown entry is the one the mount left
C18_DismissIdempotent ==
    /\ [][ClickDismiss =>
            /\ storage' = [storage EXCEPT ![dismissedKey(props.featureId)] = TrueString]
            /\ (DismissedEntry = TrueString => storage' = storage)]_vars
    /\ []((mounted /\ redismissed) =>
            /\ DismissedEntry = TrueString
            /\ LastShownEntry = IF atMount.lastShown = Null
                                THEN Str(toString(atMount.now))
                                ELSE atMount.lastShown)

\* the dismiss control has been clicked again on the dismissed popup, in a
\* later page load than the first
C18_Witness ==
    /\ mounted /\ redismissed /\ isVisible
    /\ atMount.lastShown # Null /\ atMount.dismissed = Null

\* C19 as stated: in the lifetime of one mounted instance the effect runs
\* once and schedules at most one show, also when the props change
C19_DecisionOncePerMount == mounted => (effect.runs <= 1 /\ effect.shows <= 1)

\* C19 amended: the effect runs once at mount and once more each time
\* featureId or showDays changes while the instance is mounted, never on a
\* render with unchanged props; each run schedules at most one show
C19_DecisionPerPropsChange ==
    /\ [][effect'.runs > effect.runs =>
            /\ effect'.runs = effect.runs + 1
            /\ effect'.shows <= effect.shows + 1
            /\ (~mounted \/ props' # props)]_vars
    /\ [][(mounted /\ mounted' /\ props' = props) => effect' = effect]_vars
    /\ [](mounted => (effect.runs >= 1 /\ effect.shows <= effect.runs))

\* showDays has changed after the popup was shown: the effect has run twice
\* in this mount and scheduled a second show
C19_Witness ==
    /\ mounted /\ effect.runs = 2 /\ effect.shows = 2
    /\ shownAt # NoTime /\ ShowPending

\* C20: a page load at which showDays or more days have passed since
\* lastShownAt shows nothing; the entry, once written, is not refreshed and
\* the clock never goes back, so a show period that is over stays over; and
\* the popup shows only in loads less than showDays days after the load that
\* wrote lastShown
C20_ExpiredForGood ==
    /\ []((mounted /\ atMount.lastShown # Null
            /\ ElapsedAtMount >= props.showDays * MsPerDay) => NoShow)
    /\ [][now' >= now /\ \A f \in FeatureIds :
            storage[lastShownKey(f)] # Null
                => storage'[lastShownKey(f)] = storage[lastShownKey(f)]]_vars
    /\ []((mounted /\ (isVisible \/ ShowPending))
            => atMount.now - ParseInt(LastShownEntry).n < props.showDays * MsPerDay)

\* a third page load, more than a day after the show period ended, its
\* display delay over and nothing shown
C20_Witness ==
    /\ Returning /\ mountCount >= 3
    /\ props.showDays = 1
    /\ ElapsedAtMount >= 2 * MsPerDay
    /\ LastShownEntry = atMount.lastShown
    /\ DelayOver /\ NoShow

\* C21: while the hide that a click on Close, Dismiss or Engage has scheduled
\* is pending, the animated flag is false, whatever the order of the click
\* and the animation tick
C21_ClosingNeverAnimated == (mounted /\ HidePending) => ~isAnimating

\* C22: no step of the popup of the mounted featureId changes an entry of
\* another featureId, and its decision does not depend on them: whatever the
\* other entries are, a first load schedules the show and a load that finds
\* its own dismissed entry shows nothing
C22_OtherEntriesUntouched ==
    /\ [][\A f \in StorageIds \ FeatureIds :
            /\ storage'[lastShownKey(f)] = storage[lastShownKey(f)]
            /\ storage'[dismissedKey(f)] = storage[dismissedKey(f)]]_vars
    /\ []((mounted /\ atMount.lastShown = Null /\ atMount.dismissed = Null)
            => ShowScheduled)
    /\ []((mounted /\ atMount.dismissed # Null) => NoShow)

\* the earlier announcement was dismissed, and this one is shown on its first
\* load and dismissed in turn, the earlier entries being as they were
C22_Witness ==
    /\ mounted /\ isVisible
    /\ atMount.lastShown = Null /\ atMount.dismissed = Null
    /\ DismissedEntry = TrueString
    /\ \A f \in EarlierFeatureIds :
          /\ storage[dismissedKey(f)] = TrueString
          /\ storage[lastShownKey(f)] = Str(toString(0))
    /\ now >= MsPerDay

\* C23: in the click-anywhere variant a click on "Maybe later" or on the
\* header button writes the dismissed entry and pushes nothing to the router
C23_DismissDoesNotNavigate ==
    [][(variant = "part_007" /\ (ClickMaybeLater \/ ClickCloseButton))
          => (DismissedEntry' = TrueString /\ history' = history)]_vars

\* the click-anywhere popup has been dismissed while visible, the router
\* untouched
C23_Witness ==
    /\ variant = "part_007"
    /\ mounted /\ isVisible /\ HidePending
    /\ atMount.dismissed = Null /\ DismissedEntry = TrueString
    /\ history = <<>>

\* the places of the release with this id in a list
Places(list, id) == {i \in DOMAIN list : list[i].id = id}

\* C24: getReleaseData returns every release of the file exactly once, the
\* later published_at first, each with its fields kept and with the date
\* strings and the version parsed from its tag_name
C24_AllReleasesNewestFirst ==
    releases # NotCalled =>
        /\ releases.tag = "value"
        /\ Len(releases.v) = Len(releaseData)
        /\ \A i \in DOMAIN releaseData : Cardinality(Places(releases.v, i)) = 1
        /\ \A i, j \in DOMAIN releases.v :
              i < j => getTime(releases.v[i].published_at) >= getTime(releases.v[j].published_at)
        /\ \A i \in DOMAIN releases.v :
              LET r == releases.v[i]
                  src == releaseData[r.id]
              IN  /\ r.tag_name = src.tag_name /\ r.published_at = src.published_at
                  /\ r.prerelease = src.prerelease /\ r.draft = src.draft
                  /\ r.published_at_date = SubSeq(src.published_at, 1, 2)
                  /\ r.published_at_string.day = getTime(src.published_at) \div 10
                  /\ <<"v">> \o r.version.major \o <<".">> \o r.version.minor
                        \o <<".">> \o r.version.patch
                     = SubSeq(IF Head(src.tag_name) = "v" THEN src.tag_name
                              ELSE <<"v">> \o src.tag_name, 1,
                              Len(r.version.major) + Len(r.version.minor)
                                + Len(r.version.patch) + 3)

\* a file of three releases, the oldest first, has been returned newest first
C24_Witness ==
    /\ releases.tag = "value" /\ Len(releases.v) = 3
    /\ getTime(releaseData[1].published_at) < getTime(releaseData[2].published_at)
    /\ getTime(releaseData[2].published_at) < getTime(releaseData[3].published_at)
    /\ releases.v[1].id = 3 /\ releases.v[3].id = 1

\* the stable releases of a list: neither prerelease nor draft
StableIn(list) == {i \in DOMAIN list : Stable(list[i])}

\* C25: applied to the list getReleaseData returned, getLatestRelease returns
\* undefined when no release is stable, and otherwise a stable release than
\* which no stable release was published later, every release ahead of it in
\* the list being a prerelease or a draft
C25_LatestStableRelease ==
    latest # NotCalled =>
        IF StableIn(releases.v) = {}
        THEN latest.tag = "undefined"
        ELSE /\ latest.tag = "value"
             /\ \E i \in StableIn(releases.v) :
                   /\ latest.v = <<releases.v[i]>>
                   /\ \A j \in 1..(i - 1) : ~Stable(releases.v[j])
                   /\ \A j \in StableIn(releases.v) :
                         getTime(releases.v[j].published_at)
                            <= getTime(releases.v[i].published_at)

\* the latest release was found behind a draft and a prerelease
C25_Witness ==
    /\ latest.tag = "value"
    /\ Len(releases.v) = 3
    /\ releases.v[1].draft /\ releases.v[2].prerelease
    /\ latest.v = <<releases.v[3]>>

\* the number a string of digits denotes
Number(digits) == DigitPrefix(digits, 0)

\* the major version of the releases of a group
MajorOf(group) == Number(group.releases[1].version.major)

\* C26: getMajorReleases puts every release into exactly one group, keyed
\* v<major>.<minor>, lists the groups by descending number of the major
\* version, and keeps the releases of a group in the order of the input
C26_GroupsByMajorDescending ==
    majorReleases # NotCalled =>
        LET groups == majorReleases.v
        IN  /\ \A i \in DOMAIN releases.v :
                  Cardinality({g \in DOMAIN groups :
                      \E m \in DOMAIN groups[g].releases :
                          groups[g].releases[m] = releases.v[i]}) = 1
            /\ \A g \in DOMAIN groups : \A m \in DOMAIN groups[g].releases :
                  groups[g].key = groupKey(groups[g].releases[m])
            /\ \A g, h \in DOMAIN groups : g < h => MajorOf(groups[g]) >= MajorOf(groups[h])
            /\ \A g \in DOMAIN groups : \A m, n \in DOMAIN groups[g].releases :
                  m < n => \E i, j \in DOMAIN releases.v :
                              /\ i < j
                              /\ releases.v[i] = groups[g].releases[m]
                              /\ releases.v[j] = groups[g].releases[n]

\* C27: a release whose tag_name is not a version does not make
\* getReleaseData fail: the releases with a version are returned
C27_OtherTagsTolerated ==
    releases # NotCalled =>
        /\ releases.tag = "value"
        /\ \A i \in DOMAIN releaseData :
              Match(releaseData[i].tag_name).matched => Places(releases.v, i) # {}

\* a file fails validation: it is not an array of releases, or one of its
\* releases lacks tag_name or body
FailsValidation(file) ==
    \/ file.kind # "array"
    \/ \E i \in DOMAIN file.entries : ~(file.entries[i].tag_name /\ file.entries[i].body)

\* C28: the script exits with a status other than 0 whenever one of the
\* three files fails validation, whichever of the three it is
C28_ExitStatusReportsEveryFile ==
    (Exited /\ \E r \in Repos : FailsValidation(files[r])) => status # 0

\* C29: a fetch that fails, the API call or the filter, leaves the stored
\* file of its repository as it was
C29_FailedFetchKeepsFile ==
    [][\A r \in Repos, response \in Failures :
          Fetch(r, response) => files'[r] = files[r]]_vars

====
